---- MODULE Spec2Model ----
(***************************************************************************)
(* A model of the PDF outline extractor (src/src/outline_extractor.py) and *)
(* of the batch driver (src/src/main.py).                                  *)
(*                                                                         *)
(* Text is a sequence of one-character strings.  Font sizes are integers   *)
(* in tenths of a point (17pt = 170); the mean font size is kept as the    *)
(* exact fraction sum/n and ratios are compared by cross-multiplication.   *)
(* Regular expressions are values interpreted by Ends, which returns every *)
(* position where a match starting at a given position can stop.           *)
(***************************************************************************)
EXTENDS Integers, Sequences, FiniteSets, TLC

\* ------------------------------------------------------------------ bounds
\* longest enumerated text given to _clean_heading_text
MaxCleanLen == 5
\* longest enumerated text given to the fragment classifier
MaxTextLen == 6
\* most text lines in an enumerated document
MaxLines == 3
\* most pages in an enumerated document
MaxPages == 2
\* most spans on the first page of a document given to _extract_title
MaxSpans == 2
\* most PDF files in a batch
MaxBatch == 3

\* ------------------------------------------------------------- characters
LowerSeq == <<"a","b","c","d","e","f","g","h","i","j","k","l","m",
              "n","o","p","q","r","s","t","u","v","w","x","y","z">>
UpperSeq == <<"A","B","C","D","E","F","G","H","I","J","K","L","M",
              "N","O","P","Q","R","S","T","U","V","W","X","Y","Z">>
LowerSet == {LowerSeq[i] : i \in 1..26}
UpperSet == {UpperSeq[i] : i \in 1..26}
AlphaSet == LowerSet \cup UpperSet
DigitSet == {"0","1","2","3","4","5","6","7","8","9"}
SpaceSet == {" ", "\t", "\n", "\r"}

\* str.lower() / str.upper() on one character
ToLower == [c \in UpperSet |-> LowerSeq[CHOOSE i \in 1..26 : UpperSeq[i] = c]]
ToUpper == [c \in LowerSet |-> UpperSeq[CHOOSE i \in 1..26 : LowerSeq[i] = c]]
LowerChar(c) == IF c \in UpperSet THEN ToLower[c] ELSE c
UpperChar(c) == IF c \in LowerSet THEN ToUpper[c] ELSE c

\* str.lower()
LowerStr(s) == [i \in 1..Len(s) |-> LowerChar(s[i])]

\* str.strip(): drop leading and trailing whitespace
RECURSIVE LStrip(_)
LStrip(s) == IF s # <<>> /\ Head(s) \in SpaceSet THEN LStrip(Tail(s)) ELSE s
RECURSIVE RStrip(_)
RStrip(s) ==
  IF s # <<>> /\ s[Len(s)] \in SpaceSet THEN RStrip(SubSeq(s, 1, Len(s) - 1)) ELSE s
Strip(s) == RStrip(LStrip(s))

\* str.isupper(): at least one cased character and no lower-case one
IsUpperStr(s) ==
  /\ \E i \in 1..Len(s) : s[i] \in UpperSet
  /\ \A i \in 1..Len(s) : s[i] \notin LowerSet

\* the Python test "kw in s" on strings
Contains(s, kw) ==
  \E i \in 1..(Len(s) - Len(kw) + 1) : SubSeq(s, i, i + Len(kw) - 1) = kw

\* n copies of the character c
Repeat(c, n) == [i \in 1..n |-> c]

\* all texts over the alphabet A of length lo..hi that str.strip() leaves alone
RECURSIVE Words(_, _)
Words(A, n) ==
  IF n = 0 THEN {<<>>} ELSE {Append(w, c) : w \in Words(A, n - 1), c \in A}
StrippedTexts(A, lo, hi) ==
  {w \in UNION {Words(A, n) : n \in lo..hi} : w # <<>> /\ Strip(w) = w}

\* ------------------------------------------------------ regular expressions
Cls(S)  == [t |-> "cls",  cs |-> S,  rs |-> <<>>]
Cat(rs) == [t |-> "cat",  cs |-> {}, rs |-> rs]
Star(r) == [t |-> "star", cs |-> {}, rs |-> <<r>>]
Plus(r) == [t |-> "plus", cs |-> {}, rs |-> <<r>>]
Opt(r)  == [t |-> "opt",  cs |-> {}, rs |-> <<r>>]
EndRe   == [t |-> "end",  cs |-> {}, rs |-> <<>>]
\* a literal word, character by character
Lit(w)  == Cat([i \in 1..Len(w) |-> Cls({w[i]})])

\* membership of c in a character class, with re.IGNORECASE when ic
CharIn(c, cs, ic) ==
  c \in cs \/ (ic /\ (LowerChar(c) \in cs \/ UpperChar(c) \in cs))

RECURSIVE Ends(_, _, _, _)
RECURSIVE CatEnds(_, _, _, _, _)
RECURSIVE Closure(_, _, _, _)
\* the positions after every way r can match s from position i on
Ends(r, s, i, ic) ==
  CASE r.t = "cls"  -> IF i <= Len(s) /\ CharIn(s[i], r.cs, ic) THEN {i + 1} ELSE {}
    [] r.t = "end"  -> IF i = Len(s) + 1 \/ (i = Len(s) /\ s[i] = "\n") THEN {i} ELSE {}
    [] r.t = "cat"  -> CatEnds(r.rs, 1, s, {i}, ic)
    [] r.t = "opt"  -> {i} \cup Ends(r.rs[1], s, i, ic)
    [] r.t = "star" -> Closure(r.rs[1], s, {i}, ic)
    [] r.t = "plus" -> Closure(r.rs[1], s, Ends(r.rs[1], s, i, ic), ic)
CatEnds(rs, k, s, P, ic) ==
  IF k > Len(rs) \/ P = {} THEN P
  ELSE CatEnds(rs, k + 1, s, UNION {Ends(rs[k], s, p, ic) : p \in P}, ic)
Closure(r, s, P, ic) ==
  LET N == P \cup UNION {Ends(r, s, p, ic) : p \in P}
  IN  IF N = P THEN P ELSE Closure(r, s, N, ic)

\* re.match(r, s): a match anchored at the start of s
ReMatch(r, s, ic) == Ends(r, s, 1, ic) # {}

\* re.sub(r, repl, s) for an expression that never matches the empty text and
\* whose greedy match is its longest one; anchored: the pattern starts with ^.
\* From position i: copy up to the next match, put repl for it, go on after it.
RECURSIVE SubFrom(_, _, _, _, _)
SubFrom(r, repl, s, i, anchored) ==
  LET starts == {j \in (IF anchored THEN {1} ELSE 1..Len(s)) :
                   j >= i /\ Ends(r, s, j, FALSE) # {}}
  IN  IF starts = {} THEN SubSeq(s, i, Len(s))
      ELSE LET j == CHOOSE x \in starts : \A y \in starts : x <= y
               E == Ends(r, s, j, FALSE)
               e == CHOOSE x \in E : \A y \in E : y <= x
           IN  SubSeq(s, i, j - 1) \o repl \o SubFrom(r, repl, s, e, anchored)
ReSub(r, repl, s, anchored) == SubFrom(r, repl, s, 1, anchored)

\* ------------------------------------------------- _clean_heading_text
\* Python's None
None == <<"<None>">>

DotDashSpace == {".", "-"} \cup SpaceSet
\* r'\s+'
ReSpaces == Plus(Cls(SpaceSet))
\* r'\s+\d+\s*$'
RePageNumber == Cat(<<Plus(Cls(SpaceSet)), Plus(Cls(DigitSet)), Star(Cls(SpaceSet)), EndRe>>)
\* r'^[\.\-\s]+'
ReLeadingArtifacts == Plus(Cls(DotDashSpace))
\* r'[\.\-\s]+$'
ReTrailingArtifacts == Cat(<<Plus(Cls(DotDashSpace)), EndRe>>)

_clean_heading_text(text) ==
  LET t1 == Strip(ReSub(ReSpaces, <<" ">>, text, FALSE))
      t2 == ReSub(RePageNumber, <<>>, t1, FALSE)
      t3 == ReSub(ReLeadingArtifacts, <<>>, t2, TRUE)
      t4 == ReSub(ReTrailingArtifacts, <<>>, t3, FALSE)
  IN  IF Len(t4) > 2 THEN t4 ELSE None

\* ------------------------------------------------------- heading_patterns
ReDigits == Plus(Cls(DigitSet))
ReOptDot == Opt(Cls({"."}))
ReDot    == Cls({"."})
ReWs     == Plus(Cls(SpaceSet))
ReLetter == Cls(AlphaSet)
\* [:\-\s]*[A-Za-z\s]*$
ReTitleTail == <<Star(Cls({":", "-"} \cup SpaceSet)), Star(Cls(AlphaSet \cup SpaceSet)), EndRe>>

heading_patterns == <<
  \* r'^\d+\.?\s+[A-Z]'
  Cat(<<ReDigits, ReOptDot, ReWs, Cls(UpperSet)>>),
  \* r'^[A-Z][A-Z\s&:]+$'
  Cat(<<Cls(UpperSet), Plus(Cls(UpperSet \cup SpaceSet \cup {"&", ":"})), EndRe>>),
  \* r'^Chapter\s+\d+[:\-\s]*[A-Za-z\s]*$'
  Cat(<<Lit(<<"C","h","a","p","t","e","r">>), ReWs, ReDigits>> \o ReTitleTail),
  \* r'^Section\s+\d+[:\-\s]*[A-Za-z\s]*$'
  Cat(<<Lit(<<"S","e","c","t","i","o","n">>), ReWs, ReDigits>> \o ReTitleTail),
  \* r'^Appendix\s+[A-Z\d]+[:\-\s]*[A-Za-z\s]*$'
  Cat(<<Lit(<<"A","p","p","e","n","d","i","x">>), ReWs, Plus(Cls(UpperSet \cup DigitSet))>>
      \o ReTitleTail),
  \* r'^\d+\.\d+\.?\s+[A-Za-z]'
  Cat(<<ReDigits, ReDot, ReDigits, ReOptDot, ReWs, ReLetter>>),
  \* r'^\d+\.\d+\.\d+\.?\s+[A-Za-z]'
  Cat(<<ReDigits, ReDot, ReDigits, ReDot, ReDigits, ReOptDot, ReWs, ReLetter>>),
  \* r'^[A-Z][a-z]+(?:\s+[A-Z][a-z]+)*\s*$'
  Cat(<<Cls(UpperSet), Plus(Cls(LowerSet)),
        Star(Cat(<<ReWs, Cls(UpperSet), Plus(Cls(LowerSet))>>)),
        Star(Cls(SpaceSet)), EndRe>>),
  \* r'^[A-Z][a-z]+\s+\d+[:\-\s]*[A-Za-z\s]*$'
  Cat(<<Cls(UpperSet), Plus(Cls(LowerSet)), ReWs, ReDigits>> \o ReTitleTail),
  \* r'^\([IVX]+\)\s+[A-Za-z]'
  Cat(<<Cls({"("}), Plus(Cls({"I", "V", "X"})), Cls({")"}), ReWs, ReLetter>>),
  \* r'^[A-Z]\.\s+[A-Za-z]'
  Cat(<<Cls(UpperSet), ReDot, ReWs, ReLetter>>)
>>

heading_keywords == {
  <<"i","n","t","r","o","d","u","c","t","i","o","n">>,
  <<"a","b","s","t","r","a","c","t">>,
  <<"s","u","m","m","a","r","y">>,
  <<"c","o","n","c","l","u","s","i","o","n">>,
  <<"d","i","s","c","u","s","s","i","o","n">>,
  <<"r","e","s","u","l","t","s">>,
  <<"m","e","t","h","o","d","s">>,
  <<"m","e","t","h","o","d","o","l","o","g","y">>,
  <<"a","n","a","l","y","s","i","s">>,
  <<"b","a","c","k","g","r","o","u","n","d">>,
  <<"l","i","t","e","r","a","t","u","r","e">>,
  <<"r","e","v","i","e","w">>,
  <<"o","b","j","e","c","t","i","v","e","s">>,
  <<"g","o","a","l","s">>,
  <<"f","i","n","d","i","n","g","s">>,
  <<"r","e","c","o","m","m","e","n","d","a","t","i","o","n","s">>,
  <<"r","e","f","e","r","e","n","c","e","s">>,
  <<"b","i","b","l","i","o","g","r","a","p","h","y">>,
  <<"a","p","p","e","n","d","i","x">>,
  <<"c","h","a","p","t","e","r">>,
  <<"s","e","c","t","i","o","n">>,
  <<"p","a","r","t">>,
  <<"o","v","e","r","v","i","e","w">>,
  <<"a","p","p","r","o","a","c","h">>,
  <<"f","r","a","m","e","w","o","r","k">>
}

\* ------------------------------------------------------------ font ratios
\* font_size / avg_font_size > num / den, the mean being avg.sum / avg.n
RatioGT(font_size, avg, num, den) == font_size * avg.n * den > num * avg.sum

\* font_flags & 2**4
IsBold(font_flags) == (font_flags \div 16) % 2 = 1

\* --------------------------------------------- _determine_heading_level
NoLevel == "none"

\* r'^\d+\.?\s+[A-Za-z]', r'^\d+\.\d+\.?\s+[A-Za-z]', r'^\d+\.\d+\.\d+\.?\s+[A-Za-z]'
ReNumberedH1 == Cat(<<ReDigits, ReOptDot, ReWs, ReLetter>>)
ReNumberedH2 == Cat(<<ReDigits, ReDot, ReDigits, ReOptDot, ReWs, ReLetter>>)
ReNumberedH3 == Cat(<<ReDigits, ReDot, ReDigits, ReDot, ReDigits, ReOptDot, ReWs, ReLetter>>)
\* r'^Chapter\s+\d+', r'^Section\s+\d+'
ReChapterN == Cat(<<Lit(<<"C","h","a","p","t","e","r">>), ReWs, ReDigits>>)
ReSectionN == Cat(<<Lit(<<"S","e","c","t","i","o","n">>), ReWs, ReDigits>>)

\* a variant whose H1 rule reads r'^\d+[\.\d]*\s+[A-Za-z]'
NumberedLevelLooseH1(text) ==
  IF ReMatch(Cat(<<ReDigits, Star(Cls({"."} \cup DigitSet)), ReWs, ReLetter>>), text, FALSE)
  THEN "H1"
  ELSE IF ReMatch(ReNumberedH2, text, FALSE) THEN "H2"
  ELSE IF ReMatch(ReNumberedH3, text, FALSE) THEN "H3"
  ELSE NoLevel

NumberedLevel(text) ==
  IF ReMatch(ReNumberedH1, text, FALSE) THEN "H1"
  ELSE IF ReMatch(ReNumberedH2, text, FALSE) THEN "H2"
  ELSE IF ReMatch(ReNumberedH3, text, FALSE) THEN "H3"
  ELSE NoLevel

StructuralLevel(text) ==
  IF ReMatch(ReChapterN, text, TRUE) THEN "H1"
  ELSE IF ReMatch(ReSectionN, text, TRUE) THEN "H2"
  ELSE NoLevel

\* a variant whose H1 threshold is 1.7 instead of 1.6
RatioLevelHighH1(font_size, avg_font_size) ==
  IF RatioGT(font_size, avg_font_size, 17, 10) THEN "H1"
  ELSE IF RatioGT(font_size, avg_font_size, 13, 10) THEN "H2"
  ELSE IF RatioGT(font_size, avg_font_size, 11, 10) THEN "H3"
  ELSE NoLevel

RatioLevel(font_size, avg_font_size) ==
  IF RatioGT(font_size, avg_font_size, 16, 10) THEN "H1"
  ELSE IF RatioGT(font_size, avg_font_size, 13, 10) THEN "H2"
  ELSE IF RatioGT(font_size, avg_font_size, 11, 10) THEN "H3"
  ELSE NoLevel

\* a variant whose bold threshold is 1.05 instead of 1.15
BoldLevelLowH2(font_size, font_flags, avg_font_size) ==
  IF IsBold(font_flags)
  THEN IF RatioGT(font_size, avg_font_size, 105, 100) THEN "H2" ELSE "H3"
  ELSE NoLevel

BoldLevel(font_size, font_flags, avg_font_size) ==
  IF IsBold(font_flags)
  THEN IF RatioGT(font_size, avg_font_size, 115, 100) THEN "H2" ELSE "H3"
  ELSE NoLevel

major_indicators == {
  <<"i","n","t","r","o","d","u","c","t","i","o","n">>,
  <<"c","o","n","c","l","u","s","i","o","n">>,
  <<"a","b","s","t","r","a","c","t">>,
  <<"s","u","m","m","a","r","y">>,
  <<"r","e","f","e","r","e","n","c","e","s">>
}
minor_indicators == {
  <<"m","e","t","h","o","d","s">>,
  <<"r","e","s","u","l","t","s">>,
  <<"d","i","s","c","u","s","s","i","o","n">>,
  <<"a","n","a","l","y","s","i","s">>,
  <<"b","a","c","k","g","r","o","u","n","d">>
}

KeywordLevel(text) ==
  LET text_lower == LowerStr(text)
  IN  IF \E k \in major_indicators : Contains(text_lower, k) THEN "H1"
      ELSE IF \E k \in minor_indicators : Contains(text_lower, k) THEN "H2"
      ELSE "H3"

_determine_heading_level(text, font_size, font_flags, avg_font_size) ==
  LET numbered   == NumberedLevel(text)
      structural == StructuralLevel(text)
      by_ratio   == RatioLevel(font_size, avg_font_size)
      by_bold    == BoldLevel(font_size, font_flags, avg_font_size)
  IN  IF numbered # NoLevel THEN numbered
      ELSE IF structural # NoLevel THEN structural
      ELSE IF by_ratio # NoLevel THEN by_ratio
      ELSE IF by_bold # NoLevel THEN by_bold
      ELSE KeywordLevel(text)

\* ------------------------------------ the loop body of _extract_headings
\* "len(text) > 100 or len(text) < 3: continue"
LengthFiltered(text) == Len(text) > 100 \/ Len(text) < 3

MatchesHeadingPattern(text) ==
  \E k \in 1..Len(heading_patterns) : ReMatch(heading_patterns[k], text, TRUE)

HasHeadingKeyword(text) ==
  LET text_lower == LowerStr(text)
  IN  \E k \in heading_keywords : Contains(text_lower, k)

\* the value of is_heading at "if is_heading:"
IsHeading(text, font_size, font_flags, avg_font_size) ==
  \/ RatioGT(font_size, avg_font_size, 12, 10)
  \/ IsBold(font_flags) /\ RatioGT(font_size, avg_font_size, 105, 100)
  \/ MatchesHeadingPattern(text)
  \/ IsUpperStr(text) /\ 3 < Len(text) /\ Len(text) < 50
  \/ HasHeadingKeyword(text)

\* a variant that computes the level from the cleaned text
ProcessInfoLevelOfCleaned(info, avg_font_size) ==
  IF LengthFiltered(info.text)
  THEN [is_heading |-> FALSE, level |-> NoLevel, cleaned |-> None, out |-> <<>>]
  ELSE IF ~IsHeading(info.text, info.font_size, info.font_flags, avg_font_size)
  THEN [is_heading |-> FALSE, level |-> NoLevel, cleaned |-> None, out |-> <<>>]
  ELSE LET cleaned_text == _clean_heading_text(info.text)
           heading_level == _determine_heading_level(
                              IF cleaned_text # None THEN cleaned_text ELSE info.text,
                              info.font_size, info.font_flags, avg_font_size)
       IN  [is_heading |-> TRUE, level |-> heading_level, cleaned |-> cleaned_text,
            out |-> IF cleaned_text # None
                    THEN <<[level |-> heading_level, text |-> cleaned_text,
                            page |-> info.page]>>
                    ELSE <<>>]

\* one iteration of "for info in all_text_info": what it finds and the
\* headings (none or one) it appends
ProcessInfo(info, avg_font_size) ==
  IF LengthFiltered(info.text)
  THEN [is_heading |-> FALSE, level |-> NoLevel, cleaned |-> None, out |-> <<>>]
  ELSE IF ~IsHeading(info.text, info.font_size, info.font_flags, avg_font_size)
  THEN [is_heading |-> FALSE, level |-> NoLevel, cleaned |-> None, out |-> <<>>]
  ELSE LET heading_level == _determine_heading_level(info.text, info.font_size,
                                                     info.font_flags, avg_font_size)
           cleaned_text == _clean_heading_text(info.text)
       IN  [is_heading |-> TRUE, level |-> heading_level, cleaned |-> cleaned_text,
            out |-> IF cleaned_text # None
                    THEN <<[level |-> heading_level, text |-> cleaned_text,
                            page |-> info.page]>>
                    ELSE <<>>]

\* ------------------------------------------------------------- documents
\* A document is [metadata, pages]; metadata is [present, title] (title is
\* None when the key is missing or empty-valued), a page is the sequence of
\* its text lines (the lines of its blocks that have "lines", in order), a
\* line is a sequence of spans [text, size, flags].
Span(text, size, flags) == [text |-> text, size |-> size, flags |-> flags]

\* a | b on non-negative integers
RECURSIVE BitOr(_, _)
BitOr(a, b) ==
  IF a = 0 THEN b
  ELSE IF b = 0 THEN a
  ELSE (IF a % 2 = 1 \/ b % 2 = 1 THEN 1 ELSE 0) + 2 * BitOr(a \div 2, b \div 2)

Max2(a, b) == IF a >= b THEN a ELSE b

\* the inner loop "for span in line['spans']" from span k on
RECURSIVE LineAcc(_, _, _)
LineAcc(line, k, acc) ==
  IF k > Len(line) THEN acc
  ELSE LineAcc(line, k + 1,
               [text  |-> acc.text \o line[k].text,
                size  |-> Max2(acc.size, line[k].size),
                flags |-> BitOr(acc.flags, line[k].flags)])

\* a variant that stores the 0-based page index
LineInfoZeroBased(line, page_num) ==
  LET acc == LineAcc(line, 1, [text |-> <<>>, size |-> 0, flags |-> 0])
      line_text == Strip(acc.text)
  IN  IF line_text # <<>>
      THEN <<[text |-> line_text, font_size |-> acc.size,
              font_flags |-> acc.flags, page |-> page_num]>>
      ELSE <<>>

\* the entries (none or one) a line adds to all_text_info; page_num is 0-based
LineInfo(line, page_num) ==
  LET acc == LineAcc(line, 1, [text |-> <<>>, size |-> 0, flags |-> 0])
      line_text == Strip(acc.text)
  IN  IF line_text # <<>>
      THEN <<[text |-> line_text, font_size |-> acc.size,
              font_flags |-> acc.flags, page |-> page_num + 1]>>
      ELSE <<>>

RECURSIVE PageInfos(_, _, _)
PageInfos(page, k, page_num) ==
  IF k > Len(page) THEN <<>>
  ELSE LineInfo(page[k], page_num) \o PageInfos(page, k + 1, page_num)

\* "for page_num in range(len(doc))" from page index page_num (0-based) on
RECURSIVE CollectFrom(_, _)
CollectFrom(pages, page_num) ==
  IF page_num >= Len(pages) THEN <<>>
  ELSE PageInfos(pages[page_num + 1], 1, page_num) \o CollectFrom(pages, page_num + 1)

CollectTextInfo(doc) == CollectFrom(doc.pages, 0)

\* statistics.mean(font_sizes), kept as the fraction sum / n
RECURSIVE SumSizes(_, _)
SumSizes(infos, k) ==
  IF k > Len(infos) THEN 0 ELSE infos[k].font_size + SumSizes(infos, k + 1)
MeanFontSize(infos) == [sum |-> SumSizes(infos, 1), n |-> Len(infos)]

\* the list "headings" after the loop over all_text_info
RECURSIVE CandidatesFrom(_, _, _)
CandidatesFrom(infos, k, avg_font_size) ==
  IF k > Len(infos) THEN <<>>
  ELSE ProcessInfo(infos[k], avg_font_size).out
         \o CandidatesFrom(infos, k + 1, avg_font_size)
Candidates(infos, avg_font_size) == CandidatesFrom(infos, 1, avg_font_size)

\* sorted(headings, key=lambda x: x["page"]): stable
InsertByPage(sorted, h) ==
  SelectSeq(sorted, LAMBDA x : x.page <= h.page) \o <<h>>
    \o SelectSeq(sorted, LAMBDA x : x.page > h.page)
\* a variant that sorts with reverse=True
RECURSIVE SortByPageReversed(_)
SortByPageReversed(hs) ==
  IF hs = <<>> THEN <<>>
  ELSE LET rest == SortByPageReversed(SubSeq(hs, 1, Len(hs) - 1))
           h == hs[Len(hs)]
       IN  SelectSeq(rest, LAMBDA x : x.page >= h.page) \o <<h>>
             \o SelectSeq(rest, LAMBDA x : x.page < h.page)

RECURSIVE SortByPage(_)
SortByPage(hs) ==
  IF hs = <<>> THEN <<>>
  ELSE InsertByPage(SortByPage(SubSeq(hs, 1, Len(hs) - 1)), hs[Len(hs)])

\* a variant that compares texts case-sensitively
TextKeyCaseSensitive(h) == Strip(h.text)

\* heading["text"].lower().strip()
TextKey(h) == Strip(LowerStr(h.text))

\* the loop that fills unique_headings, from position k of the sorted list
RECURSIVE DedupFrom(_, _, _, _)
DedupFrom(sorted, k, seen_texts, unique) ==
  IF k > Len(sorted) THEN unique
  ELSE LET heading == sorted[k]
           text_key == TextKey(heading)
       IN  IF text_key \notin seen_texts /\ Len(heading.text) > 2
           THEN DedupFrom(sorted, k + 1, seen_texts \cup {text_key},
                          Append(unique, heading))
           ELSE DedupFrom(sorted, k + 1, seen_texts, unique)
Dedup(sorted) == DedupFrom(sorted, 1, {}, <<>>)

_extract_headings(doc) ==
  LET infos == CollectTextInfo(doc)
  IN  IF infos = <<>> THEN <<>>
      ELSE Dedup(SortByPage(Candidates(infos, MeanFontSize(infos))))

\* ------------------------------------------------------- _extract_title
UntitledDocument ==
  <<"U","n","t","i","t","l","e","d"," ","D","o","c","u","m","e","n","t">>

\* the spans of a page in reading order
RECURSIVE PageSpans(_, _)
PageSpans(page, k) ==
  IF k > Len(page) THEN <<>> ELSE page[k] \o PageSpans(page, k + 1)

RECURSIVE MaxFont(_, _)
MaxFont(spans, k) ==
  IF k = Len(spans) THEN spans[k].size
  ELSE Max2(spans[k].size, MaxFont(spans, k + 1))

\* re.search(r'[A-Za-z]', text)
HasAlpha(text) == \E i \in 1..Len(text) : text[i] \in AlphaSet

\* "5 < len(text) < 200 and re.search(r'[A-Za-z]', text)"
ValidTitleText(text) == 5 < Len(text) /\ Len(text) < 200 /\ HasAlpha(text)

\* a variant that takes the first valid text whatever its font size
RECURSIVE TitleFromSpansAnySize(_, _, _)
TitleFromSpansAnySize(spans, k, max_font) ==
  IF k > Len(spans) THEN UntitledDocument
  ELSE IF ValidTitleText(Strip(spans[k].text))
       THEN Strip(spans[k].text)
       ELSE TitleFromSpansAnySize(spans, k + 1, max_font)

\* the second pass over the first page, from span k on
RECURSIVE TitleFromSpans(_, _, _)
TitleFromSpans(spans, k, max_font) ==
  IF k > Len(spans) THEN UntitledDocument
  ELSE IF spans[k].size = max_font /\ ValidTitleText(Strip(spans[k].text))
       THEN Strip(spans[k].text)
       ELSE TitleFromSpans(spans, k + 1, max_font)

\* "if len(doc) > 0:" down to the last return
TitleFromFirstPage(doc) ==
  IF Len(doc.pages) > 0
  THEN LET spans == PageSpans(doc.pages[1], 1)
       IN  IF spans # <<>>
           THEN TitleFromSpans(spans, 1, MaxFont(spans, 1))
           ELSE UntitledDocument
  ELSE UntitledDocument

\* "metadata and metadata.get('title')" and the length test on the stripped title
MetadataTitleUsable(metadata) ==
  /\ metadata.present
  /\ metadata.title # None
  /\ metadata.title # <<>>
  /\ Strip(metadata.title) # <<>>
  /\ Len(Strip(metadata.title)) < 200

_extract_title(doc) ==
  IF MetadataTitleUsable(doc.metadata)
  THEN Strip(doc.metadata.title)
  ELSE TitleFromFirstPage(doc)

\* ---------------------------------------------------------------- extract
\* A PDF file is [name, fails_at, doc]: fails_at names the call inside
\* extract's try block that raises for this file ("none" when none does).
ErrorTitle(name) ==
  <<"E","r","r","o","r"," ","p","r","o","c","e","s","s","i","n","g"," ">> \o name

\* a variant whose except clause lets the exception through
extractPropagating(pdf_path) ==
  IF pdf_path.fails_at # "none"
  THEN [raised |-> TRUE, value |-> [title |-> <<>>, outline |-> <<>>]]
  ELSE [raised |-> FALSE,
        value |-> [title |-> _extract_title(pdf_path.doc),
                   outline |-> _extract_headings(pdf_path.doc)]]

\* what the call returns, or that it raised
extract(pdf_path) ==
  IF pdf_path.fails_at # "none"
  THEN [raised |-> FALSE,
        value |-> [title |-> ErrorTitle(pdf_path.name), outline |-> <<>>]]
  ELSE [raised |-> FALSE,
        value |-> [title |-> _extract_title(pdf_path.doc),
                   outline |-> _extract_headings(pdf_path.doc)]]

\* ------------------------------------------------------------------ state
VARIABLES
  pc,               \* where the modelled call stands
  text,             \* argument of _clean_heading_text
  cleaned_text,     \* its result
  recleaned,        \* the result of cleaning cleaned_text again
  info,             \* one entry of all_text_info given to the loop body
  avg_font_size,    \* statistics.mean(font_sizes) as [sum, n]
  is_heading,       \* the flag at "if is_heading:"
  heading_level,    \* the level _determine_heading_level returned
  doc,              \* the opened document
  all_text_info,    \* the collected lines
  headings,         \* the candidates appended by the loop
  unique_headings,  \* the list _extract_headings returns
  title,            \* the string _extract_title returns
  pdf_files,        \* main: the files found in the input directory
  file_idx,         \* main: how many files the loop has taken
  results,          \* main: the values extract() returned, in order
  output            \* main: the JSON files written, as [file, content]

cleanVars == <<text, cleaned_text, recleaned>>
fragVars  == <<info, is_heading, heading_level>>
docVars   == <<doc, all_text_info, headings, unique_headings, title>>
mainVars  == <<pdf_files, file_idx, results, output>>
vars == <<pc, cleanVars, fragVars, avg_font_size, docVars, mainVars>>

NoAvg  == [sum |-> 1, n |-> 1]
NoInfo == [text |-> <<>>, font_size |-> 0, font_flags |-> 0, page |-> 0]
NoMetadata == [present |-> FALSE, title |-> None]
NoDoc  == [metadata |-> NoMetadata, pages |-> <<>>]

IdleClean == text = <<>> /\ cleaned_text = None /\ recleaned = None
IdleFrag  == info = NoInfo /\ is_heading = FALSE /\ heading_level = NoLevel
IdleDoc   == /\ doc = NoDoc /\ all_text_info = <<>> /\ headings = <<>>
             /\ unique_headings = <<>> /\ title = None
IdleMain  == pdf_files = <<>> /\ file_idx = 0 /\ results = <<>> /\ output = {}

\* ------------------------------------------------ _clean_heading_text alone
CleanAlphabet == {"a", "1", " ", ".", "-"}
\* what the loop body can pass: stripped, 3 characters or more
CleanTexts == StrippedTexts(CleanAlphabet, 3, MaxCleanLen)

InitClean ==
  /\ pc = "clean"
  /\ text \in CleanTexts
  /\ cleaned_text = None /\ recleaned = None
  /\ IdleFrag /\ avg_font_size = NoAvg /\ IdleDoc /\ IdleMain

CleanOnce ==
  /\ pc = "clean"
  /\ cleaned_text' = _clean_heading_text(text)
  /\ pc' = "cleaned"
  /\ UNCHANGED <<text, recleaned, fragVars, avg_font_size, docVars, mainVars>>

CleanAgain ==
  /\ pc = "cleaned"
  /\ cleaned_text # None
  /\ recleaned' = _clean_heading_text(cleaned_text)
  /\ pc' = "recleaned"
  /\ UNCHANGED <<text, cleaned_text, fragVars, avg_font_size, docVars, mainVars>>

NextClean == CleanOnce \/ CleanAgain
SpecClean == InitClean /\ [][NextClean]_vars

\* ------------------------------------- the loop body on a single fragment
EnumAlphabet == {"1", ".", " ", "a"}
EnumTexts == StrippedTexts(EnumAlphabet, 1, MaxTextLen)
EnumFonts == {[size |-> 100, flags |-> 0], [size |-> 170, flags |-> 16]}

\* "1 aaa...a": a numbered line of 100 and of 101 characters
LongNumbered100 == <<"1", " ">> \o Repeat("a", 98)
LongNumbered101 == <<"1", " ">> \o Repeat("a", 99)

SampleTexts == {
  <<"I","n","t","r","o","d","u","c","t","i","o","n">>,
  <<"1","."," ","I","n","t","r","o","d","u","c","t","i","o","n">>,
  <<"1",".","1"," ","O","v","e","r","v","i","e","w">>,
  <<"1",".","1",".","1"," ","D","e","t","a","i","l">>,
  <<"C","h","a","p","t","e","r"," ","1">>,
  <<"S","e","c","t","i","o","n"," ","2">>,
  <<"M","e","t","h","o","d","s">>,
  <<"H","e","l","l","o">>,
  <<"N","O","T","E">>,
  <<"x",","," ","y">>,
  <<"a","b"," ","1">>,
  LongNumbered100,
  LongNumbered101
}
SampleSizes == {100, 105, 106, 110, 111, 115, 116, 120, 121, 130, 131, 140, 160, 161, 170}
SampleFlags == {0, 2, 16, 18}
SampleAvgs  == {[sum |-> 100, n |-> 1], [sum |-> 200, n |-> 2], [sum |-> 250, n |-> 2]}

Fragment(t, size, flags) ==
  [text |-> t, font_size |-> size, font_flags |-> flags, page |-> 1]

InitClassify ==
  /\ pc = "fragment"
  /\ \/ /\ \E t \in EnumTexts, f \in EnumFonts : info = Fragment(t, f.size, f.flags)
        /\ avg_font_size = [sum |-> 100, n |-> 1]
     \/ /\ \E t \in SampleTexts, size \in SampleSizes, flags \in SampleFlags :
             info = Fragment(t, size, flags)
        /\ avg_font_size \in SampleAvgs
  /\ is_heading = FALSE /\ heading_level = NoLevel
  /\ headings = <<>>
  /\ doc = NoDoc /\ all_text_info = <<>> /\ unique_headings = <<>> /\ title = None
  /\ IdleClean /\ IdleMain

\* one iteration of "for info in all_text_info"
ClassifyFragment ==
  /\ pc = "fragment"
  /\ LET r == ProcessInfo(info, avg_font_size)
     IN  /\ is_heading' = r.is_heading
         /\ heading_level' = r.level
         /\ cleaned_text' = r.cleaned
         /\ headings' = headings \o r.out
  /\ pc' = "classified"
  /\ UNCHANGED <<text, recleaned, info, avg_font_size, doc, all_text_info,
                 unique_headings, title, mainVars>>

\* a call of _determine_heading_level on the fragment
DetermineLevel ==
  /\ pc = "fragment"
  /\ heading_level' = _determine_heading_level(info.text, info.font_size,
                                               info.font_flags, avg_font_size)
  /\ pc' = "levelled"
  /\ UNCHANGED <<cleanVars, info, is_heading, avg_font_size, docVars, mainVars>>

NextClassify == ClassifyFragment \/ DetermineLevel
SpecClassify == InitClassify /\ [][NextClassify]_vars

\* ------------------------------------------------ claims on one fragment
\* the last position of the longest run of characters of S that starts at
\* position p of t (p - 1 when there is none)
RECURSIVE RunEnd(_, _, _)
RunEnd(t, p, S) ==
  IF p <= Len(t) /\ t[p] \in S THEN RunEnd(t, p + 1, S) ELSE p - 1
CharAt(t, p, c) == p <= Len(t) /\ t[p] = c
\* from position p on: one or more whitespace characters, then a letter
WsThenLetter(t, p) ==
  LET w == RunEnd(t, p, SpaceSet)
  IN  w >= p /\ w + 1 <= Len(t) /\ t[w + 1] \in AlphaSet
\* number, optional dot, whitespace, letter
FormN(t) ==
  LET d == RunEnd(t, 1, DigitSet)
  IN  /\ d >= 1
      /\ \/ WsThenLetter(t, d + 1)
         \/ CharAt(t, d + 1, ".") /\ WsThenLetter(t, d + 2)
\* N.M, whitespace, letter
FormNM(t) ==
  LET d1 == RunEnd(t, 1, DigitSet)
      d2 == RunEnd(t, d1 + 2, DigitSet)
  IN  /\ d1 >= 1 /\ CharAt(t, d1 + 1, ".")
      /\ d2 >= d1 + 2 /\ WsThenLetter(t, d2 + 1)
\* N.M.K, whitespace, letter
FormNMK(t) ==
  LET d1 == RunEnd(t, 1, DigitSet)
      d2 == RunEnd(t, d1 + 2, DigitSet)
      d3 == RunEnd(t, d2 + 2, DigitSet)
  IN  /\ d1 >= 1 /\ CharAt(t, d1 + 1, ".")
      /\ d2 >= d1 + 2 /\ CharAt(t, d2 + 1, ".")
      /\ d3 >= d2 + 2 /\ WsThenLetter(t, d3 + 1)

Bold == IsBold(info.font_flags)
\* avgFontSize = 10 (points)
Avg10 == avg_font_size.sum = 100 * avg_font_size.n
\* non-numbered, without keyword, of 3 to 100 characters
PlainText(t) ==
  /\ ~FormN(t) /\ ~FormNM(t) /\ ~FormNMK(t) /\ NumberedLevel(t) = NoLevel
  /\ ~HasHeadingKeyword(t)
  /\ Len(t) >= 3 /\ Len(t) <= 100
\* the text rules of is_heading: a heading pattern, or all upper-case of 4..49
TextRule(t) ==
  MatchesHeadingPattern(t) \/ (IsUpperStr(t) /\ 3 < Len(t) /\ Len(t) < 50)

\* C4 as stated: with a mean of 10pt a plain fragment of 17pt is a heading of
\* level H1, of 14pt a heading of level H2, of 11.5pt a heading of level H3,
\* and of 10.5pt without bold it is no heading and adds nothing to the outline.
C4_AsStated ==
  (pc = "classified" /\ Avg10 /\ PlainText(info.text)) =>
    /\ info.font_size = 170 => (is_heading /\ heading_level = "H1")
    /\ info.font_size = 140 => (is_heading /\ heading_level = "H2")
    /\ info.font_size = 115 => (is_heading /\ heading_level = "H3")
    /\ (info.font_size = 105 /\ ~Bold) => (~is_heading /\ headings = <<>>)

\* C4, amended: with a mean of 10pt a plain fragment of 17pt is a heading of
\* level H1 and of 14pt a heading of level H2; of 11.5pt it is a heading only
\* when bold or matched by a text rule, and then of level H3 (the level
\* function alone gives H3); of 10.5pt without bold it is a heading exactly
\* when a text rule matches it.  A heading enters the list exactly when its
\* cleaned text is accepted.
C4_RatioThresholds ==
  /\ (pc = "classified" /\ Avg10 /\ PlainText(info.text)) =>
       /\ info.font_size = 170 => (is_heading /\ heading_level = "H1")
       /\ info.font_size = 140 => (is_heading /\ heading_level = "H2")
       /\ info.font_size = 115 =>
            /\ is_heading <=> (Bold \/ TextRule(info.text))
            /\ is_heading => heading_level = "H3"
       /\ (info.font_size = 105 /\ ~Bold) =>
            /\ is_heading <=> TextRule(info.text)
            /\ ~TextRule(info.text) => headings = <<>>
       /\ headings # <<>> <=> (is_heading /\ cleaned_text # None)
  /\ (pc = "levelled" /\ Avg10 /\ PlainText(info.text) /\ info.font_size = 115) =>
       heading_level = "H3"

C4_Witness ==
  /\ pc = "classified" /\ Avg10 /\ PlainText(info.text)
  /\ info.font_size = 170 /\ ~Bold /\ ~TextRule(info.text)
  /\ heading_level = "H1" /\ headings # <<>>

\* C5 as stated: whatever the font size, the mean and the bold flag, a text
\* "N", optional dot, whitespace, letter is detected as a heading of level H1,
\* "N.M" whitespace letter gets H2 and "N.M.K" whitespace letter gets H3, and
\* the H1 numbering rule matches no N.M or N.M.K text.
C5_AsStated ==
  /\ pc = "classified" =>
       /\ FormN(info.text) => (is_heading /\ heading_level = "H1")
       /\ FormNM(info.text) => (is_heading /\ heading_level = "H2")
       /\ FormNMK(info.text) => (is_heading /\ heading_level = "H3")
  /\ (FormNM(info.text) \/ FormNMK(info.text)) =>
       ~ReMatch(ReNumberedH1, info.text, FALSE)

\* C5, amended: the same for texts of at most 100 characters (longer ones
\* are skipped before detection); the level function itself gives H1, H2, H3
\* to the three forms whatever the length.
C5_NumberingFirst ==
  /\ (pc = "classified" /\ Len(info.text) <= 100) =>
       /\ FormN(info.text) => (is_heading /\ heading_level = "H1")
       /\ FormNM(info.text) => (is_heading /\ heading_level = "H2")
       /\ FormNMK(info.text) => (is_heading /\ heading_level = "H3")
  /\ (pc = "classified" /\ Len(info.text) > 100) => (~is_heading /\ headings = <<>>)
  /\ pc = "levelled" =>
       /\ FormN(info.text) => heading_level = "H1"
       /\ FormNM(info.text) => heading_level = "H2"
       /\ FormNMK(info.text) => heading_level = "H3"
  /\ (FormNM(info.text) \/ FormNMK(info.text)) =>
       ~ReMatch(ReNumberedH1, info.text, FALSE)

C5_Witness ==
  /\ pc = "classified" /\ FormNMK(info.text)
  /\ RatioLevel(info.font_size, avg_font_size) = "H1" /\ Bold
  /\ is_heading /\ heading_level = "H3"

\* C10: for a bold fragment that no numbering, "Chapter N" or "Section N"
\* rule matches, the level is H1 exactly when the ratio exceeds 1.6, H2
\* exactly when it is above 1.3 and at most 1.6, and H3 for every ratio of at
\* most 1.3, a major keyword in the text notwithstanding; without bold, at a
\* ratio of at most 1.1, a major keyword gives H1.
C10_BoldPreemptsKeywords ==
  (/\ pc = "levelled"
   /\ NumberedLevel(info.text) = NoLevel
   /\ StructuralLevel(info.text) = NoLevel) =>
    /\ Bold =>
         /\ heading_level = "H1" <=> RatioGT(info.font_size, avg_font_size, 16, 10)
         /\ heading_level = "H2" <=>
              (/\ RatioGT(info.font_size, avg_font_size, 13, 10)
               /\ ~RatioGT(info.font_size, avg_font_size, 16, 10))
         /\ ~RatioGT(info.font_size, avg_font_size, 13, 10) => heading_level = "H3"
    /\ (/\ ~Bold
        /\ ~RatioGT(info.font_size, avg_font_size, 11, 10)
        /\ \E k \in major_indicators : Contains(LowerStr(info.text), k)) =>
         heading_level = "H1"

C10_Witness ==
  /\ pc = "levelled" /\ Bold
  /\ info.text = <<"I","n","t","r","o","d","u","c","t","i","o","n">>
  /\ info.font_size * avg_font_size.n = avg_font_size.sum
  /\ heading_level = "H3"

\* ------------------------------------------------- _extract_headings alone
LinePool == {
  <<Span(<<"I","n","t","r","o">>, 170, 0)>>,
  <<Span(<<"I","N","T","R","O"," ","1">>, 100, 16)>>,
  <<Span(<<"a","b"," ","1">>, 100, 0)>>,
  <<Span(<<"x",","," ","y">>, 240, 0)>>,
  <<Span(<<"1","."," ">>, 100, 0), Span(<<"I","n","t","r","o">>, 100, 16)>>
}

\* the sequences of np pages that hold at most nl lines of LinePool in all
RECURSIVE PageSeqs(_, _)
PageSeqs(np, nl) ==
  IF np = 0 THEN {<<>>}
  ELSE UNION {{<<page>> \o rest : page \in Words(LinePool, k),
                                  rest \in PageSeqs(np - 1, nl - k)} : k \in 0..nl}

ChapterLine(n, size, flags) ==
  <<Span(<<"C","h","a","p","t","e","r"," ",n>>, size, flags)>>
\* "Chapter 1" on page 1 and "Chapter 2" on page 5
ChapterPages(s1, f1, s2, f2) ==
  << <<ChapterLine("1", s1, f1)>>, <<>>, <<>>, <<>>, <<ChapterLine("2", s2, f2)>> >>
\* a blank line and a line of two characters before a line of the pool
ShortLinePages(line) ==
  << << <<Span(<<" ">>, 100, 0)>>, <<Span(<<"a","b">>, 240, 16)>>, line >> >>

HeadingPages ==
  UNION {PageSeqs(np, MaxLines) : np \in 0..MaxPages}
    \cup {ChapterPages(s1, f1, s2, f2) :
            s1 \in {100, 170}, f1 \in {0, 16}, s2 \in {100, 170}, f2 \in {0, 16}}
    \cup {ShortLinePages(line) : line \in LinePool}

InitHeadings ==
  /\ pc = "headings"
  /\ \E pages \in HeadingPages : doc = [metadata |-> NoMetadata, pages |-> pages]
  /\ all_text_info = <<>> /\ avg_font_size = NoAvg
  /\ headings = <<>> /\ unique_headings = <<>> /\ title = None
  /\ IdleClean /\ IdleFrag /\ IdleMain

\* a call of _extract_headings(doc)
ExtractHeadings ==
  /\ pc = "headings"
  /\ all_text_info' = CollectTextInfo(doc)
  /\ IF all_text_info' = <<>>
     THEN /\ unique_headings' = <<>>
          /\ UNCHANGED <<avg_font_size, headings>>
     ELSE /\ avg_font_size' = MeanFontSize(all_text_info')
          /\ headings' = Candidates(all_text_info', avg_font_size')
          /\ unique_headings' = Dedup(SortByPage(headings'))
  /\ pc' = "done"
  /\ UNCHANGED <<cleanVars, fragVars, doc, title, mainVars>>

NextHeadings == ExtractHeadings
SpecHeadings == InitHeadings /\ [][NextHeadings]_vars

\* --------------------------------------------------- claims on an outline
\* the key of a heading: its text lower-cased and trimmed
KeyOf(h) == Strip(LowerStr(h.text))
\* a comes before b in page order, ties broken by the position in the sequence
Before(seq, a, b) ==
  seq[a].page < seq[b].page \/ (seq[a].page = seq[b].page /\ a < b)
\* the first position, in that order, of the sequence hs that satisfies P
FirstIn(hs, P(_)) ==
  CHOOSE k \in 1..Len(hs) :
    P(hs[k]) /\ \A m \in 1..Len(hs) : (m # k /\ P(hs[m])) => Before(hs, k, m)

\* C1: no two returned headings have the same key; of the candidates that
\* share a key the first in page order (then in encounter order) is the one
\* returned, with its own level and page; every candidate's key is returned.
C1_Dedup ==
  pc = "done" =>
    /\ \A i, j \in 1..Len(unique_headings) :
         i < j => KeyOf(unique_headings[i]) # KeyOf(unique_headings[j])
    /\ \A i \in 1..Len(unique_headings) :
         LET SameKey(h) == KeyOf(h) = KeyOf(unique_headings[i])
         IN  /\ \E k \in 1..Len(headings) : SameKey(headings[k])
             /\ unique_headings[i] = headings[FirstIn(headings, SameKey)]
    /\ \A k \in 1..Len(headings) :
         \E i \in 1..Len(unique_headings) :
           KeyOf(unique_headings[i]) = KeyOf(headings[k])

C1_Witness ==
  /\ pc = "done"
  /\ \E a, b \in 1..Len(headings) :
       /\ a < b
       /\ KeyOf(headings[a]) = KeyOf(headings[b])
       /\ headings[a].text # headings[b].text
       /\ headings[a].level # headings[b].level
       /\ headings[a].page < headings[b].page
       /\ \E i \in 1..Len(unique_headings) : unique_headings[i] = headings[a]

\* the first position of the candidate list that holds the heading h
FirstIndex(hs, h) == CHOOSE k \in 1..Len(hs) : hs[k] = h /\ \A m \in 1..(k - 1) : hs[m] # h

\* C2: the returned headings are in non-decreasing page order, and those of
\* one page keep the order in which the loop met their fragments.
C2_Ordering ==
  pc = "done" =>
    \A i, j \in 1..Len(unique_headings) :
      i < j =>
        /\ unique_headings[i].page <= unique_headings[j].page
        /\ \E k \in 1..Len(headings) : headings[k] = unique_headings[i]
        /\ \E k \in 1..Len(headings) : headings[k] = unique_headings[j]
        /\ unique_headings[i].page = unique_headings[j].page =>
             FirstIndex(headings, unique_headings[i])
               < FirstIndex(headings, unique_headings[j])

C2_Witness ==
  /\ pc = "done"
  /\ \E i, j \in 1..Len(unique_headings) :
       i < j /\ unique_headings[i].page = unique_headings[j].page
  /\ \E i, j \in 1..Len(unique_headings) :
       i < j /\ unique_headings[i].page < unique_headings[j].page

\* For each collected line, what the loop body is to find: whether the line
\* is a candidate (passes the length filter and is_heading holds), and its
\* cleaned text (None when cleaning leaves 2 characters or fewer).  The
\* formulas bind the table once (\A F \in {Found}) and read it from there.
Found ==
  [k \in 1..Len(all_text_info) |->
     LET x == all_text_info[k]
     IN  IF LengthFiltered(x.text)
            \/ ~IsHeading(x.text, x.font_size, x.font_flags, avg_font_size)
         THEN [candidate |-> FALSE, cleaned |-> None]
         ELSE [candidate |-> TRUE, cleaned |-> _clean_heading_text(x.text)]]
IsDropped(F, k) == F[k].candidate /\ F[k].cleaned = None
IsKept(F, k) == F[k].candidate /\ F[k].cleaned # None
KeptBefore(F, k) == Cardinality({m \in 1..k : IsKept(F, m)})

\* C8: every returned heading has a text longer than 2, a level H1..H3 and
\* a page of at least 1; a candidate cleaned down to 2 characters or fewer
\* leaves no entry, and every other candidate is in the candidate list at
\* its place, with its cleaned text and page, and has its key returned.
C8_LengthFloor ==
  pc = "done" =>
    \A F \in {Found} :
        /\ \A i \in 1..Len(unique_headings) :
             /\ Len(unique_headings[i].text) > 2
             /\ unique_headings[i].text # None
             /\ unique_headings[i].level \in {"H1", "H2", "H3"}
             /\ unique_headings[i].page >= 1
        /\ Len(headings) = KeptBefore(F, Len(all_text_info))
        /\ \A k \in 1..Len(all_text_info) :
             IsKept(F, k) =>
               /\ headings[KeptBefore(F, k)].text = F[k].cleaned
               /\ headings[KeptBefore(F, k)].page = all_text_info[k].page
               /\ \E i \in 1..Len(unique_headings) :
                    KeyOf(unique_headings[i]) = KeyOf(headings[KeptBefore(F, k)])

C8_Witness ==
  /\ pc = "done"
  /\ \E F \in {Found} :
         \E k, m \in 1..Len(all_text_info) :
           /\ k < m /\ IsDropped(F, k) /\ IsKept(F, m)
           /\ \E i \in 1..Len(unique_headings) :
                /\ unique_headings[i].page = all_text_info[m].page
                /\ unique_headings[i].text = F[m].cleaned

\* the kept lines whose cleaned text has the key of the heading h
HasKeyOf(F, h, k) == IsKept(F, k) /\ Strip(LowerStr(F[k].cleaned)) = KeyOf(h)
\* the earliest of them in page order, then in encounter order
EarliestWithKeyOf(F, h) ==
  CHOOSE k \in 1..Len(all_text_info) :
    /\ HasKeyOf(F, h, k)
    /\ \A m \in 1..Len(all_text_info) :
         (m # k /\ HasKeyOf(F, h, m)) => Before(all_text_info, k, m)

\* C9: each returned heading has the level that _determine_heading_level
\* gives the raw text of the earliest kept line with its key, and that
\* line's cleaned text and page; "Chapter 1" on page 1 and "Chapter 2" on
\* page 5 give the single heading H1 "Chapter" on page 1.
C9_LevelOfRawText ==
  pc = "done" =>
    \A F \in {Found} :
        /\ \A i \in 1..Len(unique_headings) :
             /\ \E k \in 1..Len(all_text_info) : HasKeyOf(F, unique_headings[i], k)
             /\ LET e == EarliestWithKeyOf(F, unique_headings[i])
                    first == all_text_info[e]
                IN  /\ unique_headings[i].level =
                         _determine_heading_level(first.text, first.font_size,
                                                  first.font_flags, avg_font_size)
                    /\ unique_headings[i].text = F[e].cleaned
                    /\ unique_headings[i].page = first.page
             /\ \A j \in 1..Len(unique_headings) :
                  KeyOf(unique_headings[j]) = KeyOf(unique_headings[i]) => j = i
        /\ (\E s1, s2 \in {100, 170}, f1, f2 \in {0, 16} :
              doc.pages = ChapterPages(s1, f1, s2, f2)) =>
             unique_headings =
               <<[level |-> "H1", text |-> <<"C","h","a","p","t","e","r">>, page |-> 1]>>

C9_Witness ==
  /\ pc = "done"
  /\ doc.pages = ChapterPages(100, 0, 100, 0)
  /\ Len(headings) = 2
  /\ unique_headings =
       <<[level |-> "H1", text |-> <<"C","h","a","p","t","e","r">>, page |-> 1]>>

\* ---------------------------------------------------- _extract_title alone
TitleTexts == {
  <<"A","n","n","u","a","l"," ","R","e","p","o","r","t"," ","2","0","2","4">>,
  <<"1","2","3","4","5","6","7","8">>,
  <<"a","b","c","d","e">>,
  <<" ","a","b","c","d","e","f"," ">>,
  Repeat("a", 199),
  Repeat("a", 200)
}
TitleSpans == {Span(t, size, 0) : t \in TitleTexts, size \in {120, 240}}

\* a first page of n spans: all on one line, or one line for each
FirstPages(n) ==
  {<<w>> : w \in Words(TitleSpans, n)}
    \cup {[k \in 1..n |-> <<w[k]>>] : w \in Words(TitleSpans, n)}

\* a later page with the largest and perfectly valid text of the document
LaterPage ==
  << <<Span(<<"L","a","t","e","r"," ","p","a","g","e">>, 300, 0)>> >>

TitlePages ==
  {<<>>}
    \cup UNION {{<<first>>, <<first, LaterPage>>} :
                  first \in UNION {FirstPages(n) : n \in 0..MaxSpans}}

MetadataPool == {
  NoMetadata,
  [present |-> TRUE, title |-> None],
  [present |-> TRUE, title |-> <<>>],
  [present |-> TRUE, title |-> <<" ", " ">>],
  [present |-> TRUE, title |-> <<" ","M","y"," ","R","e","p","o","r","t"," ">>],
  [present |-> TRUE, title |-> <<" ">> \o Repeat("m", 199) \o <<" ">>],
  [present |-> TRUE, title |-> Repeat("m", 200)]
}

InitTitle ==
  /\ pc = "title"
  /\ \E metadata \in MetadataPool, pages \in TitlePages :
       doc = [metadata |-> metadata, pages |-> pages]
  /\ all_text_info = <<>> /\ avg_font_size = NoAvg
  /\ headings = <<>> /\ unique_headings = <<>> /\ title = None
  /\ IdleClean /\ IdleFrag /\ IdleMain

\* a call of _extract_title(doc)
ExtractTitle ==
  /\ pc = "title"
  /\ title' = _extract_title(doc)
  /\ pc' = "done"
  /\ UNCHANGED <<cleanVars, fragVars, avg_font_size, doc, all_text_info,
                 headings, unique_headings, mainVars>>

NextTitle == ExtractTitle
SpecTitle == InitTitle /\ [][NextTitle]_vars

\* ----------------------------------------------------- claims on the title
\* the metadata holds a non-empty title whose trimmed length is 1..199
MetadataTitleGood ==
  /\ doc.metadata.present
  /\ doc.metadata.title # None
  /\ doc.metadata.title # <<>>
  /\ Len(Strip(doc.metadata.title)) >= 1
  /\ Len(Strip(doc.metadata.title)) <= 199
\* the text pieces of the first page, in reading order
FirstPagePieces ==
  IF Len(doc.pages) > 0 THEN PageSpans(doc.pages[1], 1) ELSE <<>>
\* piece k has the largest font size of the first page, a trimmed length
\* above 5 and of at most hi, and a letter A-Z or a-z
GoodPiece(sp, k, hi) ==
  /\ \A m \in 1..Len(sp) : sp[m].size <= sp[k].size
  /\ Len(Strip(sp[k].text)) > 5
  /\ Len(Strip(sp[k].text)) <= hi
  /\ \E i \in 1..Len(sp[k].text) : sp[k].text[i] \in AlphaSet
\* the three-step chain, with hi as the largest trimmed length a piece may have
TitleChain(hi) ==
  pc = "done" =>
    \A sp \in {FirstPagePieces} :
      IF MetadataTitleGood
      THEN title = Strip(doc.metadata.title)
      ELSE IF \E k \in 1..Len(sp) : GoodPiece(sp, k, hi)
      THEN LET k == CHOOSE x \in 1..Len(sp) :
                      GoodPiece(sp, x, hi) /\ \A y \in 1..(x - 1) : ~GoodPiece(sp, y, hi)
           IN  title = Strip(sp[k].text)
      ELSE title = UntitledDocument

\* C6 as stated: a usable metadata title is returned trimmed; otherwise the
\* first piece of the first page with the largest font size, a trimmed
\* length strictly between 5 and 199 and a letter; otherwise "Untitled
\* Document".
C6_AsStated == TitleChain(198)

\* C6, amended: the same with a trimmed length above 5 and of at most 199.
C6_TitleChain == TitleChain(199)

C6_Witness ==
  /\ pc = "done"
  /\ ~MetadataTitleGood
  /\ Len(doc.pages) = 2
  /\ Len(FirstPagePieces) = 2
  /\ FirstPagePieces[1].size = FirstPagePieces[2].size
  /\ Len(Strip(FirstPagePieces[1].text)) = 200
  /\ title = Strip(FirstPagePieces[2].text)
  /\ Len(title) = 199

\* ------------------------------------------------------------------- main
PdfName(i) == Repeat("f", i) \o <<".", "p", "d", "f">>
\* output_dir / f"{pdf_file.stem}.json"
OutputName(name) == SubSeq(name, 1, Len(name) - 4) \o <<".", "j", "s", "o", "n">>

BatchDocs == {
  [metadata |-> [present |-> TRUE, title |-> <<" ","M","y"," ","R","e","p","o","r","t"," ">>],
   pages |-> << << <<Span(<<"I","n","t","r","o">>, 170, 0)>>,
                   <<Span(<<"I","N","T","R","O"," ","1">>, 100, 16)>> >> >>],
  [metadata |-> [present |-> TRUE, title |-> None], pages |-> <<>>],
  [metadata |-> NoMetadata, pages |-> ChapterPages(100, 0, 170, 16)]
}
FileKinds ==
  {[fails_at |-> f, doc |-> d] : f \in {"none"}, d \in BatchDocs}
    \cup {[fails_at |-> f, doc |-> NoDoc] : f \in {"open", "title", "headings"}}
Batches ==
  UNION {{[i \in 1..n |-> [name |-> PdfName(i), fails_at |-> w[i].fails_at,
                           doc |-> w[i].doc]] : w \in Words(FileKinds, n)}
           : n \in 0..MaxBatch}

InitMain ==
  /\ pc = "main"
  /\ pdf_files \in Batches
  /\ file_idx = 0 /\ results = <<>> /\ output = {}
  /\ IdleClean /\ IdleFrag /\ avg_font_size = NoAvg /\ IdleDoc

\* "if not pdf_files: return"
NoFiles ==
  /\ pc = "main"
  /\ pdf_files = <<>>
  /\ pc' = "done"
  /\ UNCHANGED <<cleanVars, fragVars, avg_font_size, docVars, mainVars>>

\* one iteration of "for pdf_file in pdf_files": the call of extract, the
\* write of the JSON file (which the file system may refuse), the except clause
ProcessFile ==
  /\ pc = "main"
  /\ file_idx < Len(pdf_files)
  /\ \E r \in {extract(pdf_files[file_idx + 1])}, written \in BOOLEAN :
       LET out == OutputName(pdf_files[file_idx + 1].name)
       IN  /\ results' = IF r.raised THEN results ELSE Append(results, r.value)
           /\ output' = IF ~r.raised /\ written
                        THEN {f \in output : f.file # out}
                               \cup {[file |-> out, content |-> r.value]}
                        ELSE output
  /\ file_idx' = file_idx + 1
  /\ UNCHANGED <<pc, cleanVars, fragVars, avg_font_size, docVars, pdf_files>>

\* the loop is over
Complete ==
  /\ pc = "main"
  /\ pdf_files # <<>>
  /\ file_idx = Len(pdf_files)
  /\ pc' = "done"
  /\ UNCHANGED <<cleanVars, fragVars, avg_font_size, docVars, mainVars>>

NextMain == NoFiles \/ ProcessFile \/ Complete
SpecMain == InitMain /\ [][NextMain]_vars

\* ------------------------------------------------------- claims on a batch
\* the result of a document that is processed alone
ResultAlone(pdf) ==
  [title |-> _extract_title(pdf.doc), outline |-> _extract_headings(pdf.doc)]
\* the degraded result of a document whose extraction fails
ErrorResult(pdf) ==
  [title |-> <<"E","r","r","o","r"," ","p","r","o","c","e","s","s","i","n","g"," ">>
               \o pdf.name,
   outline |-> <<>>]

\* C7: extract returns a result for every document the loop has taken, one
\* for each: the error title and an empty outline for a document whose
\* extraction fails, and for every other document the result it has when
\* processed alone; a written file holds its document's result.
C7_FailureContained ==
  /\ Len(results) = file_idx
  /\ pc = "done" => file_idx = Len(pdf_files)
  /\ \A k \in 1..Len(results) :
       results[k] = IF pdf_files[k].fails_at # "none"
                    THEN ErrorResult(pdf_files[k])
                    ELSE ResultAlone(pdf_files[k])
  /\ \A f \in output :
       \E k \in 1..Len(results) :
         f.file = OutputName(pdf_files[k].name) /\ f.content = results[k]
  /\ \A f, g \in output : f.file = g.file => f = g

C7_Witness ==
  /\ pc = "done"
  /\ Len(pdf_files) = 3 /\ Len(results) = 3
  /\ pdf_files[1].fails_at = "none"
  /\ pdf_files[2].fails_at = "headings"
  /\ pdf_files[3].fails_at = "none"
  /\ results[1].outline # <<>>
  /\ results[2].outline = <<>>
  /\ results[2].title = ErrorResult(pdf_files[2]).title
  /\ results[3] = results[1]
  /\ Cardinality(output) = 3

\* ------------------------------------------------- claim on the normalizer
\* C3: cleaning an accepted cleaned text again gives the same text.
C3_CleanIdempotent == pc = "recleaned" => recleaned = cleaned_text

====
